---- MODULE Spec2Model ----
(***************************************************************************)
(* State-machine model of src/src/components/Interactive3DWidget.jsx.      *)
(*                                                                         *)
(* Angles and the rotation speed are kept in exact thousandths of a        *)
(* radian: the drag sensitivity 0.01 is 10 thousandths per pixel and the   *)
(* slider step 0.001 is 1 thousandth.  One mount of the component is       *)
(* modelled: render, effect (Mount), host events, effect cleanup (Unmount).*)
(***************************************************************************)
EXTENDS Integers, Sequences, FiniteSets, TLC

\* ---------------------------------------------------------------- bounds
MaxEvents == 4         \* input events (pointer, touch, layout, resize, slider) per run
MaxFrames == 2         \* animate() invocations per run under Spec
MaxTouches == 2        \* largest e.touches.length delivered
MaxAutoFrames == 100   \* animate() invocations per run under SpecAuto
MaxSpeedChanges == 1   \* slider changes per run under SpecAuto

\* ------------------------------------------------------ program constants
Sensitivity == 10      \* deltaX * 0.01, in thousandths per pixel
InitialSpeed == 10     \* useRef(0.01)
SliderMin == 0         \* min="0"
SliderMax == 100       \* max="0.1"
SliderStep == 1        \* step="0.001"

\* ---------------------------------------------------- inputs of the host
Points == { [x |-> 100, y |-> 100], [x |-> 150, y |-> 130], [x |-> 120, y |-> 90] }
ContainerSizes == { <<600, 400>>, <<300, 400>>, <<800, 600>> }
TouchCounts == 1..MaxTouches
\* slider positions asked for by the user: <<thousandths, tenths of a thousandth>>
RawValues == { <<-5, 0>>, <<0, 0>>, <<1, 4>>, <<49, 5>>, <<150, 0>> }
\* hosts: both context names work, only the legacy name works, no context,
\* no WebGLRenderingContext constructor, the probe attempt throws
ProbeEnvs ==
  { [ctor |-> TRUE,  webgl |-> TRUE,  experimental |-> TRUE,  throws |-> FALSE],
    [ctor |-> TRUE,  webgl |-> FALSE, experimental |-> TRUE,  throws |-> FALSE],
    [ctor |-> TRUE,  webgl |-> FALSE, experimental |-> FALSE, throws |-> FALSE],
    [ctor |-> FALSE, webgl |-> TRUE,  experimental |-> TRUE,  throws |-> FALSE],
    [ctor |-> TRUE,  webgl |-> TRUE,  experimental |-> TRUE,  throws |-> TRUE] }

VARIABLES
  phase,            \* "rendered" (first render committed), "mounted" (effect ran), "unmounted"
  env,              \* what the host offers to the capability probe
  webglSupported,   \* useState(true)
  isLoading,        \* useState(true)
  rotationSpeed,    \* rotationSpeedRef.current, thousandths
  renders,          \* forceUpdate counter (v => v + 1)
  container,        \* <<clientWidth, clientHeight>> of the container element
  sceneObjects,     \* objects added to the THREE.Scene
  cameraAspect,     \* camera.aspect as <<num, den>>; << >> while there is no camera
  surface,          \* render surface: "none", "attached", "disposed"
  rendererSize,     \* <<width, height>> given to renderer.setSize
  disposed,         \* geometry/material resources disposed
  listeners,        \* registered <<target, type, handler>>
  hasCleanup,       \* the effect returned a cleanup function
  isDragging,       \* let isDragging
  previousPointerPosition,
  rotX, rotY,       \* cube.rotation.x / .y, thousandths
  timer,            \* startup setTimeout: "none", "pending", "fired"
  rafPending,       \* number of requestAnimationFrame callbacks queued
  frames,           \* animate() invocations (= renderer.render calls)
  lastEvent,        \* the event handled by the latest step
  nEvents,          \* input events handled
  speedChanges,     \* slider change events handled
  gPressed, gLast, dragSumX, dragSumY,  \* reference gesture bookkeeping (observer)
  multi             \* observer of multi-touch during a one-contact touch drag:
                    \* "none", "single", "active", "lifted", "broken"

vars == << phase, env, webglSupported, isLoading, rotationSpeed, renders, container,
           sceneObjects, cameraAspect, surface, rendererSize, disposed, listeners, hasCleanup,
           isDragging, previousPointerPosition, rotX, rotY, timer, rafPending, frames,
           lastEvent, nEvents, speedChanges, gPressed, gLast, dragSumX, dragSumY, multi >>

sceneVars == << sceneObjects, cameraAspect, surface, rendererSize, disposed >>
dragVars  == << isDragging, previousPointerPosition >>
loopVars  == << timer, rafPending, frames >>
reactVars == << webglSupported, isLoading, renders >>

\* ------------------------------------------------------------- helpers
RECURSIVE GCD(_, _)
GCD(a, b) == IF b = 0 THEN a ELSE GCD(b, a % b)

\* container.clientWidth / container.clientHeight as a reduced fraction
Aspect(w, h) == << w \div GCD(w, h), h \div GCD(w, h) >>

Ev(t, n, p) == [type |-> t, touches |-> n, pos |-> p]
NoPos == [x |-> 0, y |-> 0]

\* ------------------------------------------------------ capability probe
\* try { return !!(window.WebGLRenderingContext && (getContext("webgl") ||
\*       getContext("experimental-webgl"))) } catch { return false }
isWebGLAvailable(e) ==
  IF e.throws THEN FALSE
  ELSE e.ctor /\ (e.webgl \/ e.experimental)

\* ------------------------------------------------------- speed control
Min(a, b) == IF a < b THEN a ELSE b
Max(a, b) == IF a > b THEN a ELSE b

\* <input type="range"> without its min/max bounds (mutation of the control)
RangeInputValue_Unbounded(raw) ==
  IF raw[2] >= 5 THEN raw[1] + SliderStep ELSE raw[1]

\* <input type="range" min max step>: the control snaps the requested position
\* to the nearest step and keeps it inside [min, max]; result in thousandths
RangeInputValue(raw) ==
  LET snapped == IF raw[2] >= 5 THEN raw[1] + SliderStep ELSE raw[1]
  IN  Max(SliderMin, Min(SliderMax, snapped - ((snapped - SliderMin) % SliderStep)))

DigitChar(d) == CASE d = 0 -> "0" [] d = 1 -> "1" [] d = 2 -> "2" [] d = 3 -> "3"
                  [] d = 4 -> "4" [] d = 5 -> "5" [] d = 6 -> "6" [] d = 7 -> "7"
                  [] d = 8 -> "8" [] d = 9 -> "9"
CharDigit(c) == CHOOSE d \in 0..9 : DigitChar(d) = c

\* e.target.value: the control's value as a decimal string in its shortest
\* form ("0", "0.1", "0.014"), as a sequence of characters; v in thousandths
RECURSIVE ValueString(_)
ValueString(v) ==
  LET d0 == v \div 1000
      d1 == (v \div 100) % 10
      d2 == (v \div 10) % 10
      d3 == v % 10
  IN  IF v < 0 THEN << "-" >> \o ValueString(0 - v)
      ELSE IF d3 # 0 THEN << DigitChar(d0), ".", DigitChar(d1), DigitChar(d2), DigitChar(d3) >>
      ELSE IF d2 # 0 THEN << DigitChar(d0), ".", DigitChar(d1), DigitChar(d2) >>
      ELSE IF d1 # 0 THEN << DigitChar(d0), ".", DigitChar(d1) >>
      ELSE << DigitChar(d0) >>

\* parseFloat of such a string, in thousandths
RECURSIVE parseFloat(_)
parseFloat(str) ==
  LET dot  == IF \E i \in 1..Len(str) : str[i] = "."
              THEN CHOOSE i \in 1..Len(str) : str[i] = "." ELSE Len(str) + 1
      RECURSIVE IntPart(_)
      IntPart(i) == IF i = 0 THEN 0 ELSE IntPart(i - 1) * 10 + CharDigit(str[i])
      Frac(k) == IF dot + k <= Len(str) THEN CharDigit(str[dot + k]) ELSE 0
  IN  IF str[1] = "-" THEN 0 - parseFloat(Tail(str))
      ELSE IntPart(dot - 1) * 1000 + Frac(1) * 100 + Frac(2) * 10 + Frac(3)

\* ------------------------------------------- reference gesture observer
\* Bookkeeping of the drag contract, independent of the handlers' variables:
\* a press is a mouse-down or a one-contact touch-start, a move is a
\* mouse-move or a one-contact touch-move, a release is mouse-up, mouse-leave,
\* touch-end or touch-cancel.
IsPress(e)   == e.type = "mousedown" \/ (e.type = "touchstart" /\ e.touches = 1)
IsMove(e)    == e.type = "mousemove" \/ (e.type = "touchmove" /\ e.touches = 1)
IsRelease(e) == e.type \in {"mouseup", "mouseleave", "touchend", "touchcancel"}

\* "single": a one-contact touch drag is in progress; "active": a further
\* contact came down during it; "lifted": a touch-end or touch-cancel followed;
\* "broken": the host reported one contact again without a touch-end or
\* touch-cancel in between.  A press starts afresh.
MultiNext(e) ==
  IF e.type = "touchstart" /\ e.touches = 1 THEN "single"
  ELSE IF e.type = "mousedown" THEN "none"
  ELSE IF multi = "single" /\ IsRelease(e) THEN "none"
  ELSE IF multi = "single" /\ e.type = "touchstart" /\ e.touches >= 2 THEN "active"
  ELSE IF multi = "active" /\ e.type \in {"touchend", "touchcancel"} THEN "lifted"
  ELSE IF multi = "active" /\ e.type = "touchmove" /\ e.touches = 1 THEN "broken"
  ELSE multi

Observe(e) ==
  /\ lastEvent' = e
  /\ gPressed' = IF IsPress(e) THEN TRUE ELSE IF IsRelease(e) THEN FALSE ELSE gPressed
  /\ gLast' = IF IsPress(e) \/ (IsMove(e) /\ gPressed) THEN e.pos ELSE gLast
  /\ dragSumX' = IF IsMove(e) /\ gPressed THEN dragSumX + (e.pos.x - gLast.x) ELSE dragSumX
  /\ dragSumY' = IF IsMove(e) /\ gPressed THEN dragSumY + (e.pos.y - gLast.y) ELSE dragSumY
  /\ multi' = MultiNext(e)

\* an input event of the host is counted against the run's budget
Input == /\ nEvents < MaxEvents
         /\ nEvents' = nEvents + 1

Registered(target, type, handler) == << target, type, handler >> \in listeners

\* ------------------------------------------------------------------ Init
Init ==
  /\ phase = "rendered"
  /\ env \in ProbeEnvs
  /\ webglSupported = TRUE
  /\ isLoading = TRUE
  /\ rotationSpeed = InitialSpeed
  /\ renders = 0
  /\ container = << 600, 400 >>
  /\ sceneObjects = {}
  /\ cameraAspect = << >>
  /\ surface = "none"
  /\ rendererSize = << 0, 0 >>
  /\ disposed = {}
  /\ listeners = {}
  /\ hasCleanup = FALSE
  /\ isDragging = FALSE
  /\ previousPointerPosition = NoPos
  /\ rotX = 0 /\ rotY = 0
  /\ timer = "none"
  /\ rafPending = 0
  /\ frames = 0
  /\ lastEvent = Ev("render", 0, NoPos)
  /\ nEvents = 0
  /\ speedChanges = 0
  /\ gPressed = FALSE /\ gLast = NoPos /\ dragSumX = 0 /\ dragSumY = 0
  /\ multi = "none"

\* ------------------------------------------------------- mount / unmount
MountListeners ==
  { << "container", "mousedown", "onMouseDown" >>,
    << "container", "mouseup", "onMouseUp" >>,
    << "container", "mousemove", "onMouseMove" >>,
    << "container", "mouseleave", "onMouseUp" >>,
    << "container", "touchstart", "onTouchStart" >>,
    << "container", "touchmove", "onTouchMove" >>,
    << "container", "touchend", "onTouchEnd" >>,
    << "container", "touchcancel", "onTouchEnd" >>,
    << "window", "resize", "onResize" >> }

\* the listeners the cleanup function removes, with touchcancel forgotten
CleanupListeners_Leaky == MountListeners \ { << "container", "touchcancel", "onTouchEnd" >> }

\* the removeEventListener calls of the cleanup function
CleanupListeners ==
  { << "container", "mousedown", "onMouseDown" >>,
    << "container", "mouseup", "onMouseUp" >>,
    << "container", "mousemove", "onMouseMove" >>,
    << "container", "mouseleave", "onMouseUp" >>,
    << "container", "touchstart", "onTouchStart" >>,
    << "container", "touchmove", "onTouchMove" >>,
    << "container", "touchend", "onTouchEnd" >>,
    << "container", "touchcancel", "onTouchEnd" >>,
    << "window", "resize", "onResize" >> }

\* the effect with the probe gate removed: the scene is built regardless
Mount_NoGate ==
  /\ phase = "rendered"
  /\ phase' = "mounted"
  /\ webglSupported' = isWebGLAvailable(env)
  /\ cameraAspect' = Aspect(container[1], container[2])
  /\ rendererSize' = container
  /\ surface' = "attached"
  /\ sceneObjects' = { "ambientLight", "directionalLight", "cube", "floor" }
  /\ listeners' = MountListeners
  /\ timer' = "pending"
  /\ hasCleanup' = TRUE
  /\ Observe(Ev("mount", 0, NoPos))
  /\ UNCHANGED << env, isLoading, rotationSpeed, renders, container, disposed, dragVars,
                  rotX, rotY, rafPending, frames, nEvents, speedChanges >>

\* useEffect(() => { ... }, []): the body of the mount effect
Mount ==
  /\ phase = "rendered"
  /\ phase' = "mounted"
  /\ IF ~isWebGLAvailable(env)
     THEN /\ webglSupported' = FALSE
          /\ UNCHANGED << sceneVars, listeners, timer, hasCleanup >>
     ELSE /\ cameraAspect' = Aspect(container[1], container[2])
          /\ rendererSize' = container
          /\ surface' = "attached"
          /\ sceneObjects' = { "ambientLight", "directionalLight", "cube", "floor" }
          /\ listeners' = MountListeners
          /\ timer' = "pending"
          /\ hasCleanup' = TRUE
          /\ UNCHANGED << webglSupported, disposed >>
  /\ Observe(Ev("mount", 0, NoPos))
  /\ UNCHANGED << env, isLoading, rotationSpeed, renders, container, dragVars,
                  rotX, rotY, rafPending, frames, nEvents, speedChanges >>

\* React unmounts the component and runs the cleanup the effect returned
Unmount ==
  /\ phase = "mounted"
  /\ phase' = "unmounted"
  /\ IF hasCleanup
     THEN /\ listeners' = listeners \ CleanupListeners
          /\ surface' = IF surface = "attached" THEN "disposed" ELSE surface
          /\ disposed' = disposed \cup { "geometry", "material" }
     ELSE UNCHANGED << listeners, surface, disposed >>
  /\ Observe(Ev("unmount", 0, NoPos))
  /\ UNCHANGED << env, reactVars, rotationSpeed, container, sceneObjects, cameraAspect,
                  rendererSize, hasCleanup, dragVars, rotX, rotY, loopVars,
                  nEvents, speedChanges >>

\* -------------------------------------------------------- drag handlers
\* const onMouseDown = (e) => { isDragging = true; previousPointerPosition = {...} }
onMouseDown(p) ==
  /\ isDragging' = TRUE
  /\ previousPointerPosition' = p
  /\ UNCHANGED << rotX, rotY >>

\* const onMouseUp = () => { isDragging = false }
onMouseUp ==
  /\ isDragging' = FALSE
  /\ UNCHANGED << previousPointerPosition, rotX, rotY >>

\* onMouseMove without the isDragging test
onMouseMove_NoGuard(p) ==
  /\ rotY' = rotY + (p.x - previousPointerPosition.x) * Sensitivity
  /\ rotX' = rotX + (p.y - previousPointerPosition.y) * Sensitivity
  /\ previousPointerPosition' = p
  /\ UNCHANGED isDragging

\* onMouseMove that forgets to store the new pointer position
onMouseMove_StalePrev(p) ==
  IF ~isDragging
  THEN UNCHANGED << dragVars, rotX, rotY >>
  ELSE /\ rotY' = rotY + (p.x - previousPointerPosition.x) * Sensitivity
       /\ rotX' = rotX + (p.y - previousPointerPosition.y) * Sensitivity
       /\ UNCHANGED << isDragging, previousPointerPosition >>

\* const onMouseMove = (e) => { if (!isDragging) return; ... }
onMouseMove(p) ==
  IF ~isDragging
  THEN UNCHANGED << dragVars, rotX, rotY >>
  ELSE /\ rotY' = rotY + (p.x - previousPointerPosition.x) * Sensitivity
       /\ rotX' = rotX + (p.y - previousPointerPosition.y) * Sensitivity
       /\ previousPointerPosition' = p
       /\ UNCHANGED isDragging

\* onTouchStart that does not record where the contact came down
onTouchStart_NoPos(n, p) ==
  IF n = 1
  THEN /\ isDragging' = TRUE
       /\ UNCHANGED << previousPointerPosition, rotX, rotY >>
  ELSE UNCHANGED << dragVars, rotX, rotY >>

\* onTouchStart without the e.touches.length test
onTouchStart_AnyCount(n, p) ==
  /\ isDragging' = TRUE
  /\ previousPointerPosition' = p
  /\ UNCHANGED << rotX, rotY >>

\* const onTouchStart = (e) => { if (e.touches.length === 1) { ... } }
onTouchStart(n, p) ==
  IF n = 1
  THEN /\ isDragging' = TRUE
       /\ previousPointerPosition' = p
       /\ UNCHANGED << rotX, rotY >>
  ELSE UNCHANGED << dragVars, rotX, rotY >>

\* onTouchMove without the e.touches.length test
onTouchMove_AnyCount(n, p) ==
  IF ~isDragging
  THEN UNCHANGED << dragVars, rotX, rotY >>
  ELSE /\ rotY' = rotY + (p.x - previousPointerPosition.x) * Sensitivity
       /\ rotX' = rotX + (p.y - previousPointerPosition.y) * Sensitivity
       /\ previousPointerPosition' = p
       /\ UNCHANGED isDragging

\* const onTouchMove = (e) => { if (!isDragging || e.touches.length !== 1) return; ... }
onTouchMove(n, p) ==
  IF ~isDragging \/ n # 1
  THEN UNCHANGED << dragVars, rotX, rotY >>
  ELSE /\ rotY' = rotY + (p.x - previousPointerPosition.x) * Sensitivity
       /\ rotX' = rotX + (p.y - previousPointerPosition.y) * Sensitivity
       /\ previousPointerPosition' = p
       /\ UNCHANGED isDragging

\* const onTouchEnd = () => { isDragging = false }
onTouchEnd ==
  /\ isDragging' = FALSE
  /\ UNCHANGED << previousPointerPosition, rotX, rotY >>

\* what a pointer or touch event leaves alone
PointerFrame ==
  UNCHANGED << phase, env, reactVars, rotationSpeed, container, sceneVars, listeners,
               hasCleanup, loopVars, speedChanges >>

MouseDown ==
  \E p \in Points :
    /\ Registered("container", "mousedown", "onMouseDown")
    /\ Input /\ onMouseDown(p) /\ Observe(Ev("mousedown", 0, p)) /\ PointerFrame

MouseUp ==
  /\ Registered("container", "mouseup", "onMouseUp")
  /\ Input /\ onMouseUp /\ Observe(Ev("mouseup", 0, NoPos)) /\ PointerFrame

MouseLeave ==
  /\ Registered("container", "mouseleave", "onMouseUp")
  /\ Input /\ onMouseUp /\ Observe(Ev("mouseleave", 0, NoPos)) /\ PointerFrame

MouseMove ==
  \E p \in Points :
    /\ Registered("container", "mousemove", "onMouseMove")
    /\ Input /\ onMouseMove(p) /\ Observe(Ev("mousemove", 0, p)) /\ PointerFrame

TouchStart ==
  \E n \in TouchCounts, p \in Points :
    /\ Registered("container", "touchstart", "onTouchStart")
    /\ Input /\ onTouchStart(n, p) /\ Observe(Ev("touchstart", n, p)) /\ PointerFrame

TouchMove ==
  \E n \in TouchCounts, p \in Points :
    /\ Registered("container", "touchmove", "onTouchMove")
    /\ Input /\ onTouchMove(n, p) /\ Observe(Ev("touchmove", n, p)) /\ PointerFrame

TouchEnd ==
  /\ Registered("container", "touchend", "onTouchEnd")
  /\ Input /\ onTouchEnd /\ Observe(Ev("touchend", 0, NoPos)) /\ PointerFrame

TouchCancel ==
  /\ Registered("container", "touchcancel", "onTouchEnd")
  /\ Input /\ onTouchEnd /\ Observe(Ev("touchcancel", 0, NoPos)) /\ PointerFrame

\* ---------------------------------------------------------------- resize
\* the host lays the container out at another size (no handler runs)
LayoutChange ==
  \E size \in ContainerSizes \ { container } :
    /\ phase = "mounted"
    /\ Input
    /\ container' = size
    /\ Observe(Ev("layout", 0, NoPos))
    /\ UNCHANGED << phase, env, reactVars, rotationSpeed, sceneVars, listeners, hasCleanup,
                    dragVars, rotX, rotY, loopVars, speedChanges >>

\* onResize with width and height exchanged in the aspect ratio
onResize_Swapped ==
  /\ cameraAspect' = Aspect(container[2], container[1])
  /\ rendererSize' = container

\* const onResize = () => { camera.aspect = w / h; updateProjectionMatrix(); setSize(w, h) }
onResize ==
  /\ cameraAspect' = Aspect(container[1], container[2])
  /\ rendererSize' = container

Resize ==
  /\ Registered("window", "resize", "onResize")
  /\ Input
  /\ onResize
  /\ Observe(Ev("resize", 0, NoPos))
  /\ UNCHANGED << phase, env, reactVars, rotationSpeed, container, sceneObjects, surface,
                  disposed, listeners, hasCleanup, dragVars, rotX, rotY, loopVars,
                  speedChanges >>

\* ----------------------------------------------------------- speed slider
\* const onSpeedChange = (e) => { rotationSpeedRef.current = parseFloat(e.target.value);
\*                                forceUpdate((v) => v + 1) }
onSpeedChange(value) ==
  /\ rotationSpeed' = parseFloat(value)
  /\ renders' = renders + 1

\* the user moves the slider of the main view
SpeedChange ==
  \E raw \in RawValues :
    /\ phase = "mounted" /\ webglSupported
    /\ Input
    /\ onSpeedChange(ValueString(RangeInputValue(raw)))
    /\ speedChanges' = speedChanges + 1
    /\ Observe(Ev("speed", 0, NoPos))
    /\ UNCHANGED << phase, env, webglSupported, isLoading, container, sceneVars, listeners,
                    hasCleanup, dragVars, rotX, rotY, loopVars >>

\* ------------------------------------------------------------ render loop
\* animate adding the speed it saw when the effect ran (stale value)
animate_StaleSpeed(queued) ==
  /\ rotY' = rotY + InitialSpeed
  /\ frames' = frames + 1
  /\ rafPending' = queued + 1

\* animate setting the angle from the frame count instead of adding to it
animate_Overwrite(queued) ==
  /\ rotY' = (frames + 1) * rotationSpeed
  /\ frames' = frames + 1
  /\ rafPending' = queued + 1

\* animate requesting the next frame twice
animate_ScheduleTwice(queued) ==
  /\ rotY' = rotY + rotationSpeed
  /\ frames' = frames + 1
  /\ rafPending' = queued + 2

\* animate applying the increment both before and after the draw
animate_DoubleStep(queued) ==
  /\ rotY' = rotY + rotationSpeed + rotationSpeed
  /\ frames' = frames + 1
  /\ rafPending' = queued + 1

\* const animate = () => { cube.rotation.y += rotationSpeedRef.current;
\*                         renderer.render(scene, camera); requestAnimationFrame(animate) }
\* queued: the frame callbacks still queued when animate starts
animate(queued) ==
  /\ rotY' = rotY + rotationSpeed
  /\ frames' = frames + 1
  /\ rafPending' = queued + 1

\* the startup timer's callback without setIsLoading(false)
TimerFire_KeepLoading ==
  /\ timer = "pending"
  /\ timer' = "fired"
  /\ UNCHANGED isLoading
  /\ animate(rafPending)
  /\ Observe(Ev("timer", 0, NoPos))
  /\ UNCHANGED << phase, env, webglSupported, renders, rotationSpeed, container, sceneVars,
                  listeners, hasCleanup, dragVars, rotX, nEvents, speedChanges >>

\* the startup timer's callback queueing the first frame instead of running it
TimerFire_Deferred ==
  /\ timer = "pending"
  /\ timer' = "fired"
  /\ isLoading' = IF phase = "mounted" THEN FALSE ELSE isLoading
  /\ rafPending' = rafPending + 1
  /\ Observe(Ev("timer", 0, NoPos))
  /\ UNCHANGED << phase, env, webglSupported, renders, rotationSpeed, container, sceneVars,
                  listeners, hasCleanup, dragVars, rotX, rotY, frames, nEvents, speedChanges >>

\* setTimeout(() => { setIsLoading(false); animate() }, 500); nothing cancels the
\* timer, and React drops a state update of a component that has unmounted
TimerFire ==
  /\ timer = "pending"
  /\ timer' = "fired"
  /\ isLoading' = IF phase = "mounted" THEN FALSE ELSE isLoading
  /\ animate(rafPending)
  /\ Observe(Ev("timer", 0, NoPos))
  /\ UNCHANGED << phase, env, webglSupported, renders, rotationSpeed, container, sceneVars,
                  listeners, hasCleanup, dragVars, rotX, nEvents, speedChanges >>

\* the host runs one queued frame callback; nothing cancels queued callbacks
FrameUpTo(limit) ==
  /\ rafPending > 0
  /\ frames < limit
  /\ animate(rafPending - 1)
  /\ Observe(Ev("frame", 0, NoPos))
  /\ UNCHANGED << phase, env, reactVars, rotationSpeed, container, sceneVars, listeners,
                  hasCleanup, dragVars, rotX, timer, nEvents, speedChanges >>

Frame == FrameUpTo(MaxFrames)

\* ---------------------------------------------------------- specification
Next ==
  \/ Mount
  \/ Unmount
  \/ MouseDown
  \/ MouseUp
  \/ MouseLeave
  \/ MouseMove
  \/ TouchStart
  \/ TouchMove
  \/ TouchEnd
  \/ TouchCancel
  \/ LayoutChange
  \/ Resize
  \/ SpeedChange
  \/ TimerFire
  \/ Frame

Spec == Init /\ [][Next]_vars

\* the render loop on its own: a long run of frames with few slider changes
AutoFrame == FrameUpTo(MaxAutoFrames)

AutoSpeedChange == speedChanges < MaxSpeedChanges /\ SpeedChange

NextAuto ==
  \/ Mount
  \/ TimerFire
  \/ AutoFrame
  \/ AutoSpeedChange

SpecAuto == Init /\ [][NextAuto]_vars

\* ================================================================ claims
ProbeFails == ~env.ctor \/ env.throws \/ (~env.webgl /\ ~env.experimental)
IsFrameStep(e) == e.type \in {"frame", "timer"}

\* C1: as long as no frame callback has run, the cube's Y rotation is 0.01 (10
\* thousandths) times the sum of the horizontal deltas and its X rotation is
\* 0.01 times the sum of the vertical deltas of the moves made between a press
\* and its release, each delta taken from the previous press-or-move position;
\* moves outside a press/release pair add nothing.
C1_DragRotationIsSumOfDeltas ==
  frames = 0 => (rotY = 10 * dragSumX /\ rotX = 10 * dragSumY)

\* press at (100,100), move to (150,130), release: rotation.y +0.5, rotation.x +0.3
C1_Witness ==
  /\ frames = 0 /\ nEvents = 3 /\ IsRelease(lastEvent)
  /\ dragSumX = 50 /\ dragSumY = 30
  /\ rotY = 500 /\ rotX = 300

\* C2: a touch-start with two or more contacts does not take the gesture
\* controller from idle to dragging, and a touch-move with two or more contacts
\* changes neither the rotation nor the stored previous pointer position.
C2_MultiTouchIgnored ==
  [][ /\ (lastEvent'.type = "touchstart" /\ lastEvent'.touches >= 2 /\ ~isDragging)
           => ~isDragging'
      /\ (lastEvent'.type = "touchmove" /\ lastEvent'.touches >= 2)
           => (rotX' = rotX /\ rotY' = rotY
               /\ previousPointerPosition' = previousPointerPosition) ]_vars

\* a multi-contact move arrived during a drag, away from the stored position
C2_Witness ==
  /\ lastEvent.type = "touchmove" /\ lastEvent.touches >= 2
  /\ isDragging
  /\ lastEvent.pos # previousPointerPosition

\* C3: after the unmount of a widget whose probe succeeded no listener of the
\* instance is registered any more and the render surface is disposed (and no
\* longer attached), whatever happened between mount and unmount.
C3_TeardownReleasesEverything ==
  (phase = "unmounted" /\ ~ProbeFails) => (listeners = {} /\ surface = "disposed")

C3_Witness ==
  /\ phase = "unmounted" /\ ~ProbeFails
  /\ nEvents >= 2 /\ frames >= 1
  /\ listeners = {} /\ surface = "disposed"

\* C4: once the widget has unmounted no frame callback of the instance runs
\* (no further rotation increment, no further draw) and its startup timer
\* does not fire.
C4_LoopStopsAtUnmount ==
  [][ phase = "unmounted" => (frames' = frames /\ rotY' = rotY /\ timer' = timer) ]_vars

\* C5: when the probe fails at mount (the attempt throwing included) no render
\* surface, camera, scene object, listener, startup timer or frame callback
\* exists for the widget in any later state and the WebGL-supported flag is
\* false (fallback view) in every later state.
C5_ProbeFailureIsTerminal ==
  (ProbeFails /\ phase # "rendered") =>
     /\ ~webglSupported
     /\ surface = "none" /\ cameraAspect = << >> /\ sceneObjects = {}
     /\ listeners = {}
     /\ timer = "none" /\ rafPending = 0 /\ frames = 0

\* the probe attempt threw and the widget has been mounted and unmounted again
C5_Witness ==
  /\ env.throws /\ env.ctor /\ env.webgl
  /\ phase = "unmounted"
  /\ ~webglSupported /\ listeners = {} /\ surface = "none"

\* C6: the rotation speed always lies in [0, 0.1], i.e. between 0 and 100
\* thousandths.
C6_SpeedInRange ==
  rotationSpeed \in 0..100

\* the slider was pushed to its upper end
C6_Witness ==
  /\ lastEvent.type = "speed"
  /\ rotationSpeed = 100

\* C7: while the rotation speed is 0 a frame callback leaves rotation.y
\* unchanged, and a move during a drag changes the rotation by exactly 0.01
\* times its deltas whatever the speed is.
C7_ZeroSpeedHaltsOnlyAutoRotation ==
  [][ /\ (IsFrameStep(lastEvent') /\ rotationSpeed = 0) => rotY' = rotY
      /\ (IsMove(lastEvent') /\ isDragging) =>
            /\ rotY' = rotY + 10 * (lastEvent'.pos.x - previousPointerPosition.x)
            /\ rotX' = rotX + 10 * (lastEvent'.pos.y - previousPointerPosition.y) ]_vars

\* a drag move turned the cube after frames had run at speed 0
C7_Witness ==
  /\ rotationSpeed = 0 /\ frames >= 2
  /\ IsMove(lastEvent) /\ isDragging
  /\ dragSumX # 0
  /\ rotY = 10 * dragSumX + 10

\* C8: every frame callback adds to rotation.y the rotation speed stored when
\* it runs, and without drag n frames at the initial speed 0.01 add n * 0.01
\* (100 frames add 1.0), in exact thousandths.
C8_FrameAddsCurrentSpeed ==
  /\ [][ IsFrameStep(lastEvent') => rotY' = rotY + rotationSpeed ]_vars
  /\ [](speedChanges = 0 => rotY = frames * 10)
  /\ []((speedChanges = 0 /\ frames = 100) => rotY = 1000)

C8_Witness ==
  speedChanges = 0 /\ frames = 100 /\ rotY = 1000

\* C9: immediately after a resize event has been handled the camera's aspect
\* ratio equals the container's width divided by its height and the render
\* surface has the container's width and height.
C9_ResizeSyncsCameraAndSurface ==
  lastEvent.type = "resize" =>
     /\ Len(cameraAspect) = 2
     /\ cameraAspect[1] * container[2] = cameraAspect[2] * container[1]
     /\ rendererSize = container

\* a resize was handled after the container had left its size at mount
C9_Witness ==
  /\ lastEvent.type = "resize"
  /\ container = << 300, 400 >>
  /\ cameraAspect = << 3, 4 >> /\ rendererSize = << 300, 400 >>

\* C10: while the widget is mounted the loading flag is true exactly as long as
\* the startup timer has not fired, and once false it never becomes true again.
C10_LoadingClearedOnce ==
  /\ [](phase = "mounted" => (isLoading <=> timer # "fired"))
  /\ [][ ~isLoading => ~isLoading' ]_vars

C10_Witness ==
  /\ phase = "mounted" /\ ~isLoading
  /\ nEvents >= 3 /\ frames >= 2

\* C11: as long as the startup timer has not fired no frame callback has run or
\* is queued and auto-rotation has added nothing to the cube's rotation (on a
\* mounted widget: as long as the loading flag is true); the first frame runs
\* in the very step that clears the loading flag.
C11_LoopStartsAfterDelay ==
  /\ [](timer # "fired" =>
          (frames = 0 /\ rafPending = 0 /\ rotY = 10 * dragSumX /\ rotX = 10 * dragSumY))
  /\ []((phase = "mounted" /\ isLoading) => frames = 0)
  /\ [][ (isLoading /\ ~isLoading') => (frames = 0 /\ frames' = 1) ]_vars

\* the delay is still running after a drag has turned the cube
C11_Witness ==
  /\ phase = "mounted" /\ timer = "pending" /\ isLoading
  /\ nEvents >= 2 /\ dragSumX # 0
  /\ frames = 0 /\ rotY = 10 * dragSumX

\* C12: the gesture controller is idle or dragging and starts idle; it leaves
\* idle only on a mouse-down or a one-contact touch-start (and those always
\* leave it dragging); every mouse-up, mouse-leave, touch-end and touch-cancel
\* leaves it idle; no move, layout, resize, slider, timer or frame step changes it.
C12_GestureStateMachine ==
  /\ [](isDragging \in BOOLEAN /\ (phase = "rendered" => ~isDragging))
  /\ [][ /\ (~isDragging /\ isDragging') =>
               (lastEvent'.type = "mousedown"
                  \/ (lastEvent'.type = "touchstart" /\ lastEvent'.touches = 1))
         /\ (lastEvent'.type = "mousedown"
               \/ (lastEvent'.type = "touchstart" /\ lastEvent'.touches = 1)) => isDragging'
         /\ lastEvent'.type \in {"mouseup", "mouseleave", "touchend", "touchcancel"}
               => ~isDragging'
         /\ lastEvent'.type \in {"mousemove", "touchmove", "layout", "resize", "speed",
                                 "timer", "frame"}
               => isDragging' = isDragging ]_vars

\* a touch-cancel ended a drag that had turned the cube
C12_Witness ==
  /\ lastEvent.type = "touchcancel" /\ ~isDragging
  /\ dragSumX # 0

\* C13: once a further contact has come down during a one-contact touch drag,
\* and as long as the host reports every removed contact by a touch-end or
\* touch-cancel, no move event (mouse or touch) changes the cube's rotation
\* until a new press.
C13_MultiTouchSuppressesDrag ==
  [][ (/\ multi \in {"active", "lifted"}
       /\ multi' \in {"active", "lifted"}
       /\ lastEvent'.type \in {"mousemove", "touchmove"})
        => (rotX' = rotX /\ rotY' = rotY) ]_vars

\* C14: drag rotation and auto-rotation add up in every interleaving: each step
\* changes rotation.y by 0.01 times the drag delta it applies plus, for a frame,
\* the speed; with the speed never changed rotation.y is 0.01 times the summed
\* drag deltaX plus the number of frames times the speed, and rotation.x is
\* 0.01 times the summed drag deltaY.
C14_DragAndAutoRotationAdd ==
  /\ [][ (rotY' - 10 * dragSumX') - (rotY - 10 * dragSumX)
            = IF IsFrameStep(lastEvent') THEN rotationSpeed ELSE 0 ]_vars
  /\ [](speedChanges = 0 => rotY = 10 * dragSumX + frames * 10)
  /\ [](rotX = 10 * dragSumY)

\* a drag move landed after two frames and a move before them
C14_Witness ==
  /\ speedChanges = 0 /\ frames = 2 /\ nEvents = 3
  /\ IsMove(lastEvent) /\ gPressed
  /\ dragSumX = 20 /\ rotY = 220

\* C15: after a release the is-dragging flag is false, and every delta applied
\* to the cube belongs to the drag in progress: it is measured from the
\* position recorded by the press that started it or by its latest move, never
\* from a position stored before a release.
C15_ReleaseResetsDrag ==
  /\ [](IsRelease(lastEvent) => ~isDragging)
  /\ [](isDragging => (gPressed /\ previousPointerPosition = gLast))
  /\ [][ (rotX' # rotX \/ (rotY' # rotY /\ ~IsFrameStep(lastEvent'))) =>
            /\ gPressed /\ IsMove(lastEvent')
            /\ rotY' - rotY = 10 * (lastEvent'.pos.x - gLast.x)
            /\ rotX' - rotX = 10 * (lastEvent'.pos.y - gLast.y) ]_vars

\* a second drag moved the cube from its own press position
C15_Witness ==
  /\ nEvents = 4 /\ IsMove(lastEvent) /\ isDragging
  /\ dragSumX = 50 /\ dragSumY = 30 /\ rotX = 300
  /\ lastEvent.pos = [x |-> 150, y |-> 130]

\* C16: at most one frame callback is queued at any time: none before the
\* startup timer fires and exactly one afterwards; the timer fires once, and
\* every frame step counts one frame and leaves one callback queued.
C16_SingleLoop ==
  /\ [](rafPending <= 1 /\ (rafPending = 1 <=> timer = "fired"))
  /\ [][ timer # timer' =>
           \/ (timer = "none" /\ timer' = "pending" /\ lastEvent'.type = "mount")
           \/ (timer = "pending" /\ timer' = "fired" /\ lastEvent'.type = "timer") ]_vars
  /\ [][ IsFrameStep(lastEvent') => (frames' = frames + 1 /\ rafPending' = 1) ]_vars
  /\ [][ ~IsFrameStep(lastEvent') => (frames' = frames /\ rafPending' = rafPending) ]_vars

\* the loop is still single after drags, a resize and a slider change
C16_Witness ==
  /\ rafPending = 1 /\ frames = 2
  /\ nEvents = 4 /\ speedChanges >= 1 /\ dragSumX # 0
  /\ lastEvent.type = "resize"

\* C17: a frame step changes only rotation.y (besides the loop's own counters);
\* a move received while idle changes neither the rotation nor the stored
\* position; press, release, layout, resize and slider steps never change the
\* rotation; a slider step changes nothing but the speed and the re-render count.
C17_FrameConditions ==
  [][ /\ IsFrameStep(lastEvent') =>
            UNCHANGED << rotX, isDragging, previousPointerPosition, rotationSpeed >>
      /\ (lastEvent'.type \in {"mousemove", "touchmove"} /\ ~isDragging) =>
            UNCHANGED << rotX, rotY, previousPointerPosition >>
      /\ lastEvent'.type \in {"mousedown", "touchstart", "mouseup", "mouseleave", "touchend",
                              "touchcancel", "layout", "resize", "speed"} =>
            UNCHANGED << rotX, rotY >>
      /\ lastEvent'.type = "speed" =>
            UNCHANGED << phase, webglSupported, isLoading, container, sceneVars, listeners,
                         hasCleanup, dragVars, rotX, rotY, loopVars >> ]_vars

\* a move arrived while idle, away from the position left by an earlier drag
C17_Witness ==
  /\ lastEvent.type = "mousemove" /\ ~isDragging
  /\ previousPointerPosition # NoPos
  /\ lastEvent.pos # previousPointerPosition
  /\ frames >= 1
====
